---- MODULE Spec2Model ----
(***************************************************************************)
(* A model of the C-to-Python transpiler (src/transpiler.py) and of the    *)
(* request handler that calls it (src/server.py).                          *)
(*                                                                         *)
(* Text is a sequence of tokens: a character of the input, or a piece of   *)
(* an f-string of the generator.  The token "$" of an input stands for the *)
(* C source text of the input's translation unit (the field unit): the     *)
(* external parser (pycparser) is not modelled, its answer is.             *)
(***************************************************************************)
EXTENDS Integers, Sequences, FiniteSets, TLC

\* ------------------------------------------------------------------ bounds
\* Longest input text drawn character by character.
MaxLen == 4
\* Deepest nesting of statement templates inside a function body.
MaxNest == 2

\* ------------------------------------------------------------- Python values
\* A Python value that is either a str (a token sequence) or None.
Str(toks) == [t |-> "str", v |-> toks]
PyNone == [t |-> "None", v |-> <<>>]
\* bool(value): None and the empty string are falsy.
Truthy(val) == val.t = "str" /\ val.v # <<>>
\* f"{value}": None is rendered as the text None.
Format(val) == IF val.t = "None" THEN <<"None">> ELSE val.v

NL == "\n"
CR == "\r"
Whitespace == {" ", "\t", NL, CR}

RECURSIVE Join(_, _)
\* sep.join(strs)
Join(strs, sep) ==
    IF strs = <<>> THEN <<>>
    ELSE IF Len(strs) = 1 THEN strs[1]
    ELSE strs[1] \o sep \o Join(Tail(strs), sep)

RECURSIVE SplitFrom(_, _, _)
SplitFrom(s, i, cur) ==
    IF i > Len(s) THEN (IF cur = <<>> THEN <<>> ELSE <<cur>>)
    ELSE IF s[i] = CR /\ i < Len(s) /\ s[i + 1] = NL
         THEN <<cur>> \o SplitFrom(s, i + 2, <<>>)
    ELSE IF s[i] \in {CR, NL}
         THEN <<cur>> \o SplitFrom(s, i + 1, <<>>)
    ELSE SplitFrom(s, i + 1, Append(cur, s[i]))

\* str.splitlines(): lines end at \n, \r or \r\n, the terminators are dropped,
\* and no empty line follows a final terminator.
splitlines(s) == SplitFrom(s, 1, <<>>)

RECURSIVE lstrip(_)
lstrip(s) == IF s # <<>> /\ s[1] \in Whitespace THEN lstrip(Tail(s)) ELSE s

RECURSIVE rstrip(_)
rstrip(s) ==
    IF s # <<>> /\ s[Len(s)] \in Whitespace
    THEN rstrip(SubSeq(s, 1, Len(s) - 1)) ELSE s

\* str.strip()
strip(s) == rstrip(lstrip(s))

\* str.startswith('#')
startswith_hash(s) == s # <<>> /\ s[1] = "#"

\* A bug the filter could have: the test made on the unstripped line.
IsDirectiveNoStrip(line) == startswith_hash(line)

\* line.strip().startswith('#')
IsDirective(line) == startswith_hash(strip(line))

KeepLine(line) == ~IsDirective(line)

\* transpiler.py line 154: the text handed to the parser.
Preprocess(c_code) == Join(SelectSeq(splitlines(c_code), KeepLine), <<NL>>)

\* ------------------------------------------------------------------- the AST
\* The nodes of pycparser's c_ast that the generator meets.  A node is a
\* record; its field kind is the node's class name; Python's None is a node
\* of kind None.
None == [kind |-> "None"]
ID(n) == [kind |-> "ID", name |-> n]
Constant(v) == [kind |-> "Constant", value |-> v]
BinaryOp(o, l, r) == [kind |-> "BinaryOp", op |-> o, left |-> l, right |-> r]
UnaryOp(o, e) == [kind |-> "UnaryOp", op |-> o, expr |-> e]
Assignment(o, l, r) == [kind |-> "Assignment", op |-> o, lvalue |-> l, rvalue |-> r]
ArrayRef(n, s) == [kind |-> "ArrayRef", name |-> n, subscript |-> s]
ExprList(es) == [kind |-> "ExprList", exprs |-> es]
FuncCall(n, a) == [kind |-> "FuncCall", name |-> n, args |-> a]
TypeDecl == [kind |-> "TypeDecl"]
PtrDecl == [kind |-> "PtrDecl"]
ArrayDecl(d) == [kind |-> "ArrayDecl", dim |-> d]
ParamList(ps) == [kind |-> "ParamList", params |-> ps]
FuncDecl(a) == [kind |-> "FuncDecl", args |-> a]
\* name is a Python value: a str, or None for an unnamed parameter.
Typename(n) == [kind |-> "Typename", name |-> n]
Decl(n, ty, i) == [kind |-> "Decl", name |-> n, type |-> ty, init |-> i]
DeclList(ds) == [kind |-> "DeclList", decls |-> ds]
Return(e) == [kind |-> "Return", expr |-> e]
Break == [kind |-> "Break"]
EmptyStatement == [kind |-> "EmptyStatement"]
Typedef(n) == [kind |-> "Typedef", name |-> n]
Compound(items) == [kind |-> "Compound", block_items |-> items]
If(c, t, f) == [kind |-> "If", cond |-> c, iftrue |-> t, iffalse |-> f]
While(c, s) == [kind |-> "While", cond |-> c, stmt |-> s]
For(i, c, n, s) == [kind |-> "For", init |-> i, cond |-> c, next |-> n, stmt |-> s]
Switch(c, s) == [kind |-> "Switch", cond |-> c, stmt |-> s]
Case(e, ss) == [kind |-> "Case", expr |-> e, stmts |-> ss]
Default(ss) == [kind |-> "Default", stmts |-> ss]
FuncDef(d, b) == [kind |-> "FuncDef", decl |-> d, body |-> b]
FileAST(es) == [kind |-> "FileAST", ext |-> es]

\* type(node).__name__
TypeName(node) == IF node.kind = "None" THEN "NoneType" ELSE node.kind
\* bool(node): None is falsy, every node object is truthy.
IsNode(node) == node.kind # "None"
\* hasattr(node, attr): reading an attribute the node lacks raises AttributeError.
HasAttr(node, attr) == attr \in DOMAIN node

\* The visitors that append lines or change the generator's fields; each of
\* them returns None.  Every other visitor only returns a string.
Emitting ==
    {"FileAST", "FuncDef", "Compound", "If", "While", "For", "Switch", "Case", "Default"}

\* ----------------------------------------------- the visitors that return text
RECURSIVE visit(_)

generic_visit(node) == <<"# [Unhandled: ", TypeName(node), "]">>

visit_ID(node) == <<node.name>>

visit_Constant(node) == <<node.value>>

visit_BinaryOp(node) == visit(node.left) \o <<" ", node.op, " ">> \o visit(node.right)

visit_UnaryOp(node) == <<node.op>> \o visit(node.expr)

visit_Assignment(node) == visit(node.lvalue) \o <<" = ">> \o visit(node.rvalue)

visit_Return(node) == <<"return ">> \o visit(node.expr)

visit_ArrayRef(node) == visit(node.name) \o <<"[">> \o visit(node.subscript) \o <<"]">>

visit_Decl(node) ==
    IF node.type.kind = "TypeDecl"
    THEN <<node.name, " = ">> \o (IF IsNode(node.init) THEN visit(node.init) ELSE <<"None">>)
    ELSE IF node.type.kind = "ArrayDecl"
    THEN <<node.name, " = [None] * ">> \o visit(node.type.dim)
    ELSE <<>>

visit_FuncCall(node) ==
    LET func_name == visit(node.name)
        args == IF IsNode(node.args)
                THEN Join([k \in 1..Len(node.args.exprs) |-> visit(node.args.exprs[k])], <<", ">>)
                ELSE <<>>
    IN  IF func_name = <<"printf">>
        THEN <<"print(">> \o args \o <<")">>
        ELSE func_name \o <<"(">> \o args \o <<")">>

\* NodeVisitor.visit for a node whose visitor returns text: the method named
\* after the node's class, generic_visit when there is none.
visit(node) ==
    CASE node.kind = "ID" -> visit_ID(node)
      [] node.kind = "Constant" -> visit_Constant(node)
      [] node.kind = "BinaryOp" -> visit_BinaryOp(node)
      [] node.kind = "UnaryOp" -> visit_UnaryOp(node)
      [] node.kind = "Assignment" -> visit_Assignment(node)
      [] node.kind = "Return" -> visit_Return(node)
      [] node.kind = "ArrayRef" -> visit_ArrayRef(node)
      [] node.kind = "Decl" -> visit_Decl(node)
      [] node.kind = "FuncCall" -> visit_FuncCall(node)
      [] OTHER -> generic_visit(node)

\* '    ' * indent_level
RECURSIVE Spaces(_)
Spaces(n) == IF n <= 0 THEN <<>> ELSE <<"    ">> \o Spaces(n - 1)

\* --------------------------------------------------------------- the state
VARIABLES
    input,   \* input[i]: the request of call i: its text, and what the parser makes of it
    pc,      \* pc[i]: where call i of convert_c_to_python stands
    c_code,  \* c_code[i]: the local c_code of call i
    ast,     \* ast[i]: the local ast of call i
    heap,    \* heap[s]: the CtoPythonTranspiler object at address s
    stack,   \* stack[i]: the visit_* calls of call i that have not returned
    result   \* result[i]: the text call i returned

vars == <<input, pc, c_code, ast, heap, stack, result>>

\* The calls of convert_c_to_python in flight (server.py serves requests
\* concurrently, one call per request).
Calls == {1, 2}

\* A bug the construction could have: one generator object shared by all calls.
SharedSlot(i) == 1

\* transpiler = CtoPythonTranspiler(): each call constructs its own object.
Slot(i) == i

\* CtoPythonTranspiler.__init__
NewTranspiler ==
    [lines |-> <<>>, indent_level |-> 0, switch_var |-> PyNone, case_seen |-> FALSE]

Obj(i) == heap[Slot(i)]

\* self.lines.append(f"{self.indent()}{text}")
emit(o, text) == [o EXCEPT !.lines = Append(@, Spaces(o.indent_level) \o text)]

\* self.indent_level += 1
indent_inc(o) == [o EXCEPT !.indent_level = @ + 1]

\* A bug a visitor could have: the level is not restored.
indent_keep(o) == o

\* self.indent_level -= 1
indent_dec(o) == [o EXCEPT !.indent_level = @ - 1]

\* A visit_* call that has not returned: its node, how far it is (ph), and
\* the index of the next child of its loop (idx).
Frame(node) == [node |-> node, ph |-> 0, idx |-> 1]

Top(i) == stack[i][Len(stack[i])]
Visiting(i, kind) == pc[i] = "visit" /\ stack[i] # <<>> /\ Top(i).node.kind = kind

\* The stack with its top frame replaced.
SetTop(stk, f) == [stk EXCEPT ![Len(stk)] = f]
Pop(stk) == SubSeq(stk, 1, Len(stk) - 1)
\* self.visit(child) with the result unused: a visitor that emits is entered,
\* a visitor that only returns text changes nothing.
Enter(stk, child) ==
    IF child.kind \in Emitting THEN Append(stk, Frame(child)) ELSE stk

\* code = self.visit(stmt); if code: self.lines.append(f"{self.indent()}{code}")
\* for a statement whose visitor returns text.  (No visitor returns a list.)
append_code(o, stmt) ==
    LET code == Str(visit(stmt))
    IN  IF Truthy(code) THEN emit(o, code.v) ELSE o

\* What the external parser answers for the stripped text of an input: an
\* empty translation unit for blank text, the input's unit for its source
\* text, a ParseError for anything else.
NotSpace(c) == c \notin Whitespace
parse(inp, text) ==
    LET body == SelectSeq(text, NotSpace)
    IN  IF body = <<>> THEN [ok |-> TRUE, ast |-> FileAST(<<>>), e |-> <<>>]
        ELSE IF body = <<"$">> THEN [ok |-> TRUE, ast |-> inp.unit, e |-> <<>>]
        ELSE [ok |-> FALSE, ast |-> None, e |-> inp.diag]

\* ------------------------------------------------------ convert_c_to_python
\* line 154
Strip(i) ==
    /\ pc[i] = "call"
    /\ c_code' = [c_code EXCEPT ![i] = Preprocess(input[i].text)]
    /\ pc' = [pc EXCEPT ![i] = "parse"]
    /\ UNCHANGED <<input, ast, heap, stack, result>>

\* lines 156-157
Parse(i) ==
    /\ pc[i] = "parse"
    /\ LET r == parse(input[i], c_code[i])
       IN  /\ ast' = [ast EXCEPT ![i] = r.ast]
           /\ pc' = [pc EXCEPT ![i] = IF r.ok THEN "new" ELSE "except"]
    /\ UNCHANGED <<input, c_code, heap, stack, result>>

\* lines 158-159: the object is constructed and the visit of the root begins.
New(i) ==
    /\ pc[i] = "new"
    /\ heap' = [heap EXCEPT ![Slot(i)] = NewTranspiler]
    /\ stack' = [stack EXCEPT ![i] = <<Frame(ast[i])>>]
    /\ pc' = [pc EXCEPT ![i] = "visit"]
    /\ UNCHANGED <<input, c_code, ast, result>>

\* line 160
Finish(i) ==
    /\ pc[i] = "visit"
    /\ stack[i] = <<>>
    /\ result' = [result EXCEPT ![i] = Join(Obj(i).lines, <<NL>>)]
    /\ pc' = [pc EXCEPT ![i] = "done"]
    /\ UNCHANGED <<input, c_code, ast, heap, stack>>

\* A bug the handler could have: the notice alone.
ErrorTextNoDetails(e) == <<"# Error: Could not parse C code.">>

\* line 162
ErrorText(e) == <<"# Error: Could not parse C code.", NL, "# Details: ">> \o e

\* lines 161-162
Except(i) ==
    /\ pc[i] = "except"
    /\ result' = [result EXCEPT ![i] = ErrorText(parse(input[i], c_code[i]).e)]
    /\ pc' = [pc EXCEPT ![i] = "done"]
    /\ UNCHANGED <<input, c_code, ast, heap, stack>>

\* ------------------------------------------------------ CtoPythonTranspiler
\* One step of call i that changes its generator object and its stack.
Step(i, o, stk) ==
    /\ heap' = [heap EXCEPT ![Slot(i)] = o]
    /\ stack' = [stack EXCEPT ![i] = stk]
    /\ UNCHANGED <<input, pc, c_code, ast, result>>

\* An exception no handler of convert_c_to_python catches (AttributeError,
\* TypeError): it leaves the call, which returns no text.
Raise(i) ==
    /\ pc' = [pc EXCEPT ![i] = "raised"]
    /\ UNCHANGED <<input, c_code, ast, heap, stack, result>>

\* The loop of visit_Compound, visit_Case and visit_Default over stmts: a
\* statement whose visitor emits is entered (it returns None, nothing is
\* appended for it), the text any other statement returns is appended.
LoopStep(i, stmts) ==
    LET f == Top(i)
        stmt == stmts[f.idx]
        next == SetTop(stack[i], [f EXCEPT !.idx = @ + 1])
    IN  IF stmt.kind \in Emitting
        THEN Step(i, Obj(i), Append(next, Frame(stmt)))
        ELSE Step(i, append_code(Obj(i), stmt), next)

visit_FileAST(i) ==
    /\ Visiting(i, "FileAST")
    /\ LET f == Top(i)
           n == f.node
       IN  IF f.idx <= Len(n.ext)
           THEN Step(i, Obj(i), Enter(SetTop(stack[i], [f EXCEPT !.idx = @ + 1]), n.ext[f.idx]))
           ELSE Step(i, Obj(i), Pop(stack[i]))

\* The name of a parameter, a Python value.
ParamName(p) == IF p.kind = "Typename" THEN p.name ELSE Str(<<p.name>>)

\* raised: a parameter has no name attribute (AttributeError) or its name is
\* None (TypeError of str.join).
get_func_args(args) ==
    IF ~IsNode(args) THEN [raised |-> FALSE, text |-> <<>>]
    ELSE IF \E k \in 1..Len(args.params) :
                \/ ~HasAttr(args.params[k], "name")
                \/ ParamName(args.params[k]).t = "None"
         THEN [raised |-> TRUE, text |-> <<>>]
    ELSE [raised |-> FALSE,
          text |-> Join([k \in 1..Len(args.params) |-> ParamName(args.params[k]).v], <<", ">>)]

visit_FuncDef(i) ==
    /\ Visiting(i, "FuncDef")
    /\ LET f == Top(i)
           n == f.node
           args == get_func_args(n.decl.type.args)
       IN  IF f.ph = 0
           THEN IF args.raised
                THEN Raise(i)
                ELSE Step(i, indent_inc(emit(Obj(i), <<"def ", n.decl.name, "(">> \o args.text \o <<"):">>)),
                          Enter(SetTop(stack[i], [f EXCEPT !.ph = 1]), n.body))
           ELSE Step(i, indent_dec(Obj(i)), Pop(stack[i]))

visit_Compound(i) ==
    /\ Visiting(i, "Compound")
    /\ IF Top(i).idx <= Len(Top(i).node.block_items)
       THEN LoopStep(i, Top(i).node.block_items)
       ELSE Step(i, Obj(i), Pop(stack[i]))

visit_If(i) ==
    /\ Visiting(i, "If")
    /\ LET f == Top(i)
           n == f.node
       IN  CASE f.ph = 0 ->
                  Step(i, indent_inc(emit(Obj(i), <<"if ">> \o visit(n.cond) \o <<":">>)),
                       Enter(SetTop(stack[i], [f EXCEPT !.ph = 1]), n.iftrue))
             [] f.ph = 1 ->
                  IF IsNode(n.iffalse)
                  THEN Step(i, indent_inc(emit(indent_dec(Obj(i)), <<"else:">>)),
                            Enter(SetTop(stack[i], [f EXCEPT !.ph = 2]), n.iffalse))
                  ELSE Step(i, indent_dec(Obj(i)), Pop(stack[i]))
             [] OTHER -> Step(i, indent_dec(Obj(i)), Pop(stack[i]))

visit_While(i) ==
    /\ Visiting(i, "While")
    /\ LET f == Top(i)
           n == f.node
       IN  IF f.ph = 0
           THEN Step(i, indent_inc(emit(Obj(i), <<"while ">> \o visit(n.cond) \o <<":">>)),
                     Enter(SetTop(stack[i], [f EXCEPT !.ph = 1]), n.stmt))
           ELSE Step(i, indent_dec(Obj(i)), Pop(stack[i]))

\* A bug the header could have: the step clause is rendered too.
for_header_with_step(node) ==
    <<"for ">> \o visit(node.init.lvalue) \o <<" in range(">> \o visit(node.init.rvalue)
        \o <<", ">> \o visit(node.cond.right) \o <<", ">> \o visit(node.next) \o <<"):">>

\* lines 80-83
for_header(node) ==
    <<"for ">> \o visit(node.init.lvalue) \o <<" in range(">> \o visit(node.init.rvalue)
        \o <<", ">> \o visit(node.cond.right) \o <<"):">>

visit_For(i) ==
    /\ Visiting(i, "For")
    /\ LET f == Top(i)
           n == f.node
       IN  IF f.ph = 0
           THEN IF HasAttr(n.init, "lvalue") /\ HasAttr(n.init, "rvalue") /\ HasAttr(n.cond, "right")
                THEN Step(i, indent_inc(emit(Obj(i), for_header(n))),
                          Enter(SetTop(stack[i], [f EXCEPT !.ph = 1]), n.stmt))
                ELSE Raise(i)
           ELSE Step(i, indent_dec(Obj(i)), Pop(stack[i]))

visit_Switch(i) ==
    /\ Visiting(i, "Switch")
    /\ LET f == Top(i)
           n == f.node
           var == visit(n.cond)
       IN  IF f.ph = 0
           THEN Step(i, [emit(Obj(i), <<"# switch(">> \o var \o <<") equivalent">>)
                            EXCEPT !.switch_var = Str(var), !.case_seen = FALSE],
                     Enter(SetTop(stack[i], [f EXCEPT !.ph = 1]), n.stmt))
           ELSE Step(i, [Obj(i) EXCEPT !.switch_var = PyNone], Pop(stack[i]))

\* line 104
case_header(o, node) ==
    <<IF ~o.case_seen THEN "if" ELSE "elif", " ">> \o Format(o.switch_var)
        \o <<" == ">> \o visit(node.expr) \o <<":">>

visit_Case(i) ==
    /\ Visiting(i, "Case")
    /\ LET f == Top(i)
           n == f.node
       IN  IF f.ph = 0
           THEN Step(i, indent_inc([emit(Obj(i), case_header(Obj(i), n)) EXCEPT !.case_seen = TRUE]),
                     SetTop(stack[i], [f EXCEPT !.ph = 1]))
           ELSE IF f.idx <= Len(n.stmts)
                THEN LoopStep(i, n.stmts)
                ELSE Step(i, indent_dec(Obj(i)), Pop(stack[i]))

visit_Default(i) ==
    /\ Visiting(i, "Default")
    /\ LET f == Top(i)
           n == f.node
       IN  IF f.ph = 0
           THEN Step(i, indent_inc(emit(Obj(i), <<"else:">>)),
                     SetTop(stack[i], [f EXCEPT !.ph = 1]))
           ELSE IF f.idx <= Len(n.stmts)
                THEN LoopStep(i, n.stmts)
                ELSE Step(i, indent_dec(Obj(i)), Pop(stack[i]))

Next ==
    \E i \in Calls :
        \/ Strip(i)
        \/ Parse(i)
        \/ New(i)
        \/ Finish(i)
        \/ Except(i)
        \/ visit_FileAST(i)
        \/ visit_FuncDef(i)
        \/ visit_Compound(i)
        \/ visit_If(i)
        \/ visit_While(i)
        \/ visit_For(i)
        \/ visit_Switch(i)
        \/ visit_Case(i)
        \/ visit_Default(i)

\* ----------------------------------------------------------------- inputs
\* Expressions and statements of the sample programs.
Cond == BinaryOp(">", ID("x"), Constant("3"))
Asg == Assignment("=", ID("y"), Constant("1"))
Asg2 == Assignment("=", ID("z"), Constant("2"))
CallPrintf(v) == FuncCall(ID("printf"), ExprList(<<Constant(v)>>))
StepBy(v) == Assignment("=", ID("i"), BinaryOp("+", ID("i"), Constant(v)))
\* for (i = 0; i < 10; i = i + v) stmt
ForCount(v, stmt) ==
    For(Assignment("=", ID("i"), Constant("0")), BinaryOp("<", ID("i"), Constant("10")), StepBy(v), stmt)

\* The statements put innermost.  The last four are for-loops outside the
\* canonical shape: no initializer, a declaration as initializer (C99), no
\* condition, a condition that is not a binary operation.
Leaves ==
    { Asg,
      CallPrintf("\"big\""),
      Return(BinaryOp("+", ID("a"), ID("b"))),
      Decl("x", TypeDecl, None),
      Decl("a", ArrayDecl(Constant("10")), None),
      Decl("p", PtrDecl, None),
      Break,
      For(None, BinaryOp("<", ID("i"), Constant("10")), StepBy("1"), Compound(<<>>)),
      For(DeclList(<<Decl("i", TypeDecl, Constant("0"))>>), BinaryOp("<", ID("i"), Constant("10")),
          StepBy("1"), Compound(<<>>)),
      For(Assignment("=", ID("i"), Constant("0")), None, StepBy("1"), Compound(<<>>)),
      For(Assignment("=", ID("i"), Constant("0")), ID("i"), StepBy("1"), Compound(<<>>)) }

\* A declaration is not a statement: C allows it as an item of a block only.
IsDeclaration(node) == node.kind \in {"Decl", "Typedef"}

\* The statement templates: a construct around the statement h.  The Bare
\* ones hold h as their unbraced body.
Templates ==
    {"If", "IfBare", "Else", "ElseBare", "While", "WhileBare", "For", "ForBare",
     "Block", "SwitchCase", "SwitchDefault"}
Bare == {"IfBare", "ElseBare", "WhileBare", "ForBare"}

Tmpl(t, h) ==
    CASE t = "If" -> If(Cond, Compound(<<h>>), None)
      [] t = "IfBare" -> If(Cond, h, None)
      [] t = "Else" -> If(Cond, Compound(<<Asg>>), Compound(<<h>>))
      [] t = "ElseBare" -> If(Cond, Compound(<<Asg>>), h)
      [] t = "While" -> While(Cond, Compound(<<h>>))
      [] t = "WhileBare" -> While(Cond, h)
      [] t = "For" -> ForCount("1", Compound(<<h>>))
      [] t = "ForBare" -> ForCount("2", h)
      [] t = "Block" -> Compound(<<h, Asg2>>)
      [] t = "SwitchCase" ->
            Switch(ID("x"), Compound(<<Case(Constant("1"), <<Asg, h, Break>>),
                                       Case(Constant("2"), <<Asg2>>),
                                       Default(<<CallPrintf("\"other\"")>>)>>))
      [] t = "SwitchDefault" ->
            Switch(ID("k"), Compound(<<Case(Constant("1"), <<Asg>>),
                                       Default(<<Asg2, h>>),
                                       Case(Constant("3"), <<Asg2>>)>>))

RECURSIVE Nest(_, _)
\* The templates ts, outermost first, around the leaf.
Nest(ts, leaf) == IF ts = <<>> THEN leaf ELSE Tmpl(ts[1], Nest(Tail(ts), leaf))

TemplateSeqs == UNION {[1..k -> Templates] : k \in 0..MaxNest}

KandR(names) == ParamList([k \in 1..Len(names) |-> ID(names[k])])
\* name(params) { items }
Function(name, params, items) ==
    FuncDef(Decl(name, FuncDecl(params), None), Compound(items))

NestedPrograms ==
    { FileAST(<<Function("f", None, <<Nest(ts, leaf)>>)>>) :
        <<ts, leaf>> \in { x \in TemplateSeqs \X Leaves :
                             x[1] # <<>> /\ x[1][Len(x[1])] \in Bare => ~IsDeclaration(x[2]) } }

\* int add(a, b) { return a + b; }
Add == Function("add", KandR(<<"a", "b">>), <<Return(BinaryOp("+", ID("a"), ID("b")))>>)
\* void f() { int x; x = 5; if (x > 3) { printf("big"); } else { printf("small"); } }
BigSmall ==
    Function("f", None,
             <<Decl("x", TypeDecl, None), Assignment("=", ID("x"), Constant("5")),
               If(Cond, Compound(<<CallPrintf("\"big\"")>>), Compound(<<CallPrintf("\"small\"")>>))>>)
\* void f() { for (i = 0; i < 10; i = i + v) { printf(i); } }
Count(v) == Function("f", None, <<ForCount(v, Compound(<<FuncCall(ID("printf"), ExprList(<<ID("i")>>))>>))>>)
\* void s() { switch (x) { case 1: printf("one"); default: printf("other"); } }
OneOther ==
    Function("s", None,
             <<Switch(ID("x"), Compound(<<Case(Constant("1"), <<CallPrintf("\"one\"")>>),
                                          Default(<<CallPrintf("\"other\"")>>)>>))>>)
\* void f() { int *p; y = 1; }
Pointer == Function("f", None, <<Decl("p", PtrDecl, None), Asg>>)
\* void f(void) { y = 1; }
VoidParam == Function("f", ParamList(<<Typename(PyNone)>>), <<Asg>>)
\* int g(int a, int b) { y = 1; }
Named == Function("g", ParamList(<<Decl("a", TypeDecl, None), Decl("b", TypeDecl, None)>>), <<Asg>>)
\* void g() { case 2: z = 2; }    (a case label outside any switch parses)
StrayCase == Function("g", None, <<Case(Constant("2"), <<Asg2>>)>>)
\* void f() { if (x > 3) y = 1; z = 2; }
Unbraced == Function("f", None, <<If(Cond, Asg, None), Asg2>>)

SamplePrograms ==
    { FileAST(<<Add>>), FileAST(<<BigSmall>>), FileAST(<<Count("1")>>), FileAST(<<Count("2")>>),
      FileAST(<<OneOther>>), FileAST(<<Pointer>>), FileAST(<<VoidParam>>), FileAST(<<Named>>),
      FileAST(<<Unbraced>>),
      \* typedef int T; int g; int *q; void f() { ... }
      FileAST(<<Typedef("T"), Decl("g", TypeDecl, None), Decl("q", PtrDecl, None), BigSmall>>),
      FileAST(<<OneOther, StrayCase>>), FileAST(<<StrayCase, OneOther>>),
      FileAST(<<Add, OneOther>>), FileAST(<<OneOther, Add>>),
      FileAST(<<BigSmall, Add>>), FileAST(<<Add, BigSmall>>) }

Chars == {"a", "#", " ", NL, CR, "$"}
Texts == UNION {[1..k -> Chars] : k \in 0..MaxLen}
\* The parser's messages (the text of a plyparser.ParseError).
Diagnostics == {<<":1:1: before: a">>, <<": At end of input">>}

Request(text, unit, diag) == [text |-> text, unit |-> unit, diag |-> diag]

\* Texts drawn character by character, around the source of one program, and
\* the sample programs each as the whole text or after a directive line.
Inputs ==
    {Request(t, FileAST(<<Add>>), d) : t \in Texts, d \in Diagnostics}
        \cup {Request(<<"$">>, u, <<": At end of input">>) : u \in NestedPrograms \cup SamplePrograms}
        \cup {Request(<<"#", "a", CR, NL, "$", NL>>, u, <<": At end of input">>) : u \in SamplePrograms}

\* The requests of the runs with two calls in flight.
PairInputs ==
    {Request(<<"$">>, u, <<": At end of input">>) :
        u \in { FileAST(<<Count("1")>>), FileAST(<<Count("2")>>),
                FileAST(<<OneOther, StrayCase>>), FileAST(<<StrayCase, OneOther>>),
                FileAST(<<Add, BigSmall>>), FileAST(<<BigSmall, Add>>),
                FileAST(<<Function("f", None, <<ForCount("1", Compound(<<ForCount("2", Asg)>>))>>)>>),
                FileAST(<<Function("f", None, <<ForCount("2", Compound(<<ForCount("2", Asg)>>))>>)>>),
                FileAST(<<Function("f", None, <<Nest(<<"While", "SwitchCase">>, Break)>>)>>),
                FileAST(<<VoidParam>>) }}
        \cup {Request(<<"#", NL, "a">>, FileAST(<<>>), <<":1:1: before: a">>)}

\* No request.
Idle == Request(<<>>, FileAST(<<>>), <<>>)

Start(inputs, pcs) ==
    /\ input = inputs
    /\ pc = pcs
    /\ c_code = [i \in Calls |-> <<>>]
    /\ ast = [i \in Calls |-> None]
    /\ heap = [s \in Calls |-> NewTranspiler]
    /\ stack = [i \in Calls |-> <<>>]
    /\ result = [i \in Calls |-> <<>>]

\* One request.
Init ==
    \E inp \in Inputs :
        Start([i \in Calls |-> IF i = 1 THEN inp ELSE Idle],
              [i \in Calls |-> IF i = 1 THEN "call" ELSE "none"])

\* Two requests, served concurrently.
InitPair ==
    \E a \in PairInputs, b \in PairInputs :
        Start([i \in Calls |-> IF i = 1 THEN a ELSE b], [i \in Calls |-> "call"])

Spec == Init /\ [][Next]_vars

SpecPair == InitPair /\ [][Next]_vars

\* ------------------------------------------- one call, run from start to end
\* The generator as a function: the fields of the object after self.visit(node)
\* returns, begun with the fields st.  The field raised is set when an
\* exception left the visit; nothing runs after it.
RECURSIVE run(_, _)
RECURSIVE run_stmts(_, _, _)

\* self.visit(child), the result unused.
run_child(child, st) == IF child.kind \in Emitting THEN run(child, st) ELSE st

\* What follows a nested visit runs only when no exception left it.
dedent(st) == IF st.raised THEN st ELSE indent_dec(st)

\* The loop over stmts from index k on.
run_stmts(stmts, k, st) ==
    IF k > Len(stmts) \/ st.raised THEN st
    ELSE run_stmts(stmts, k + 1,
                   IF stmts[k].kind \in Emitting THEN run(stmts[k], st) ELSE append_code(st, stmts[k]))

RECURSIVE run_ext(_, _, _)
\* The loop of visit_FileAST: every result is dropped.
run_ext(ext, k, st) ==
    IF k > Len(ext) \/ st.raised THEN st ELSE run_ext(ext, k + 1, run_child(ext[k], st))

run(node, st) ==
    CASE node.kind = "FileAST" -> run_ext(node.ext, 1, st)
      [] node.kind = "FuncDef" ->
            LET args == get_func_args(node.decl.type.args)
            IN  IF args.raised THEN [st EXCEPT !.raised = TRUE]
                ELSE dedent(run_child(node.body,
                        indent_inc(emit(st, <<"def ", node.decl.name, "(">> \o args.text \o <<"):">>))))
      [] node.kind = "Compound" -> run_stmts(node.block_items, 1, st)
      [] node.kind = "If" ->
            LET s1 == dedent(run_child(node.iftrue,
                         indent_inc(emit(st, <<"if ">> \o visit(node.cond) \o <<":">>))))
            IN  IF s1.raised \/ ~IsNode(node.iffalse) THEN s1
                ELSE dedent(run_child(node.iffalse, indent_inc(emit(s1, <<"else:">>))))
      [] node.kind = "While" ->
            dedent(run_child(node.stmt, indent_inc(emit(st, <<"while ">> \o visit(node.cond) \o <<":">>))))
      [] node.kind = "For" ->
            IF HasAttr(node.init, "lvalue") /\ HasAttr(node.init, "rvalue") /\ HasAttr(node.cond, "right")
            THEN dedent(run_child(node.stmt, indent_inc(emit(st, for_header(node)))))
            ELSE [st EXCEPT !.raised = TRUE]
      [] node.kind = "Switch" ->
            LET var == visit(node.cond)
                s1 == run_child(node.stmt,
                                [emit(st, <<"# switch(">> \o var \o <<") equivalent">>)
                                    EXCEPT !.switch_var = Str(var), !.case_seen = FALSE])
            IN  IF s1.raised THEN s1 ELSE [s1 EXCEPT !.switch_var = PyNone]
      [] node.kind = "Case" ->
            dedent(run_stmts(node.stmts, 1,
                             indent_inc([emit(st, case_header(st, node)) EXCEPT !.case_seen = TRUE])))
      [] node.kind = "Default" ->
            dedent(run_stmts(node.stmts, 1, indent_inc(emit(st, <<"else:">>))))

\* The call as a function of its input alone: the text returned, or raised.
convert_c_to_python(inp) ==
    LET code == Preprocess(inp.text)
        r == parse(inp, code)
        st == run(r.ast, [lines |-> <<>>, indent_level |-> 0, switch_var |-> PyNone,
                          case_seen |-> FALSE, raised |-> FALSE])
    IN  IF ~r.ok THEN [raised |-> FALSE, text |-> ErrorText(r.e)]
        ELSE IF st.raised THEN [raised |-> TRUE, text |-> <<>>]
        ELSE [raised |-> FALSE, text |-> Join(st.lines, <<NL>>)]

\* ------------------------------------------------------------------ claims
\* The lines of a returned text.
LinesOf(text) == splitlines(text)
\* The number of indentation units a line begins with.
RECURSIVE Depth(_)
Depth(line) == IF line # <<>> /\ line[1] = "    " THEN 1 + Depth(Tail(line)) ELSE 0

\* C8: every call returns what its input alone determines, whatever the other
\* call in flight does meanwhile: the text it returns, and whether it raises,
\* are those of the same call run from start to end by itself.
C8_CallsIndependent ==
    \A i \in Calls :
        /\ pc[i] = "done" =>
              /\ ~convert_c_to_python(input[i]).raised
              /\ result[i] = convert_c_to_python(input[i]).text
        /\ pc[i] = "raised" => convert_c_to_python(input[i]).raised

\* A call has returned its text while the other, on another input, is in the
\* middle of its visit with lines of its own.
C8_Witness ==
    /\ pc[1] = "done" /\ result[1] # <<>>
    /\ pc[2] = "visit" /\ stack[2] # <<>> /\ Obj(2).lines # <<>>
    /\ input[1] # input[2]

\* The parser rejects the text call i hands it.
Rejected(i) == pc[i] \notin {"none", "call"} /\ ~parse(input[i], c_code[i]).ok

\* C1: a call whose text the parser rejects does not raise, and the text it
\* returns is exactly two lines: the fixed notice, then "# Details: " followed
\* by the parser's message.
C1_ParseFailureText ==
    \A i \in Calls :
        Rejected(i) =>
            /\ pc[i] \in {"parse", "except", "done"}
            /\ pc[i] = "done" =>
                  LinesOf(result[i]) =
                      <<<<"# Error: Could not parse C code.">>, <<"# Details: ">> \o input[i].diag>>

\* A call on a text the parser rejects has returned.
C1_Witness == \E i \in Calls : Rejected(i) /\ pc[i] = "done" /\ input[i].text # <<>>

\* C2: a call whose text parses never ends by an exception.
C2_NeverAborts == \A i \in Calls : pc[i] # "raised"

\* The visits begun and not ended that have raised the indentation: a function,
\* an if in either branch, a loop, a case or default past its header.
RECURSIVE OpenBlocks(_)
OpenBlocks(stk) ==
    IF stk = <<>> THEN 0
    ELSE OpenBlocks(Tail(stk))
           + (IF stk[1].node.kind \in {"FuncDef", "If", "While", "For", "Case", "Default"} /\ stk[1].ph >= 1
              THEN 1 ELSE 0)

\* C4: while a call visits, indent_level is the number of block-shaped
\* constructs entered and not left, so that it is after every construct what it
\* was before it; it is never negative, and 0 between top-level declarations
\* and when the text is returned.
C4_IndentRestored ==
    \A i \in Calls :
        /\ Obj(i).indent_level >= 0
        /\ pc[i] = "visit" => Obj(i).indent_level = OpenBlocks(stack[i])
        /\ pc[i] = "visit" /\ Len(stack[i]) <= 1 => Obj(i).indent_level = 0
        /\ pc[i] = "done" => Obj(i).indent_level = 0

\* A call has returned a text with a line three levels deep.
C4_Witness ==
    /\ pc[1] = "done"
    /\ \E k \in 1..Len(Obj(1).lines) : Depth(Obj(1).lines[k]) >= 3
    /\ Obj(1).indent_level = 0

\* The first character of the line that is not whitespace is #.
HashFirst(line) ==
    \E k \in 1..Len(line) : line[k] = "#" /\ \A j \in 1..(k - 1) : line[j] \in Whitespace
NotHashFirst(line) == ~HashFirst(line)

RECURSIVE EndsFrom(_, _, _)
EndsFrom(s, i, cur) ==
    IF i > Len(s) THEN (IF cur = <<>> THEN <<>> ELSE <<cur>>)
    ELSE IF s[i] = CR /\ i < Len(s) /\ s[i + 1] = NL
         THEN <<cur \o <<CR, NL>>>> \o EndsFrom(s, i + 2, <<>>)
    ELSE IF s[i] \in {CR, NL}
         THEN <<Append(cur, s[i])>> \o EndsFrom(s, i + 1, <<>>)
    ELSE EndsFrom(s, i + 1, Append(cur, s[i]))
\* The lines of a text, each with its terminator.
LinesWithEnds(s) == EndsFrom(s, 1, <<>>)

RECURSIVE Concat(_)
Concat(strs) == IF strs = <<>> THEN <<>> ELSE strs[1] \o Concat(Tail(strs))

Occurrences(s, c) == Cardinality({k \in 1..Len(s) : s[k] = c})

\* The text of call i has been stripped.
Stripped(i) == pc[i] \notin {"none", "call"}

\* C6 as stated: the text handed to the parser is the input's lines that do not
\* begin with #, each unchanged and with its original terminator.
C6_TerminatorsKept ==
    \A i \in Calls :
        Stripped(i) => c_code[i] = Concat(SelectSeq(LinesWithEnds(input[i].text), NotHashFirst))

\* C6 as amended: the lines of the text handed to the parser are the input's
\* lines that do not begin with #, unchanged and in order (a last empty line
\* aside, which leaves no trace); none of them begins with #; they are joined
\* by one \n each, whatever ended them in the input, with none after the last;
\* and the parser rejects the text only for what a kept line holds.
C6_DirectivesStripped ==
    \A i \in Calls :
        Stripped(i) =>
            LET kept == SelectSeq(splitlines(input[i].text), NotHashFirst)
                got == splitlines(c_code[i])
            IN  /\ \A k \in 1..Len(got) : ~HashFirst(got[k])
                /\ kept = got \/ kept = Append(got, <<>>)
                /\ Occurrences(c_code[i], CR) = 0
                /\ Occurrences(c_code[i], NL) = (IF kept = <<>> THEN 0 ELSE Len(kept) - 1)
                /\ pc[i] = "except" => SelectSeq(Concat(kept), NotSpace) \notin {<<>>, <<"$">>}

\* A text with a directive line, and a kept line ended by \r\n, has been stripped.
C6_Witness ==
    /\ Stripped(1)
    /\ \E k \in 1..Len(splitlines(input[1].text)) : HashFirst(splitlines(input[1].text)[k])
    /\ \E k \in 1..(Len(input[1].text) - 2) :
          input[1].text[k] \notin Whitespace \cup {"#"} /\ input[1].text[k + 1] = CR /\ input[1].text[k + 2] = NL
    /\ c_code[1] # <<>>

\* The declarations and statements the generator has no rule for: a node of a
\* class without a visit method, and a declaration that is neither a scalar
\* nor an array (a pointer declaration).
NoRule(node) ==
    \/ node.kind \in {"Break", "EmptyStatement", "Typedef", "DeclList"}
    \/ node.kind = "Decl" /\ node.type.kind \notin {"TypeDecl", "ArrayDecl"}

RECURSIVE NoRuleCount(_, _)
RECURSIVE NoRuleSum(_, _)
NoRuleSum(nodes, kind) ==
    IF nodes = <<>> THEN 0 ELSE NoRuleCount(nodes[1], kind) + NoRuleSum(Tail(nodes), kind)
\* The declarations and statements of class kind, in node, that have no rule.
NoRuleCount(node, kind) ==
    CASE node.kind = "FileAST" -> NoRuleSum(node.ext, kind)
      [] node.kind = "FuncDef" -> NoRuleCount(node.body, kind)
      [] node.kind = "Compound" -> NoRuleSum(node.block_items, kind)
      [] node.kind = "If" -> NoRuleCount(node.iftrue, kind) + NoRuleCount(node.iffalse, kind)
      [] node.kind \in {"While", "For", "Switch"} -> NoRuleCount(node.stmt, kind)
      [] node.kind \in {"Case", "Default"} -> NoRuleSum(node.stmts, kind)
      [] OTHER -> IF NoRule(node) /\ node.kind = kind THEN 1 ELSE 0

\* The line, indentation aside, is the comment naming the class kind.
Names(line, kind) == SubSeq(line, Depth(line) + 1, Len(line)) = <<"# [Unhandled: ", kind, "]">>

\* C3: in the text returned for a program, the comment lines naming a class
\* are as many as the program's declarations and statements of that class
\* with no rule, wherever these stand: each adds exactly one such line.
C3_OneCommentEach ==
    \A i \in Calls :
        pc[i] = "done" /\ ~Rejected(i) =>
            \A kind \in {"Break", "EmptyStatement", "Typedef", "DeclList", "Decl"} :
                Cardinality({k \in 1..Len(Obj(i).lines) : Names(Obj(i).lines[k], kind)})
                    = NoRuleCount(ast[i], kind)

\* The case label about to be emitted, when inside the block of a switch.
AtCase(i) ==
    /\ Visiting(i, "Case") /\ Top(i).ph = 0
    /\ Len(stack[i]) >= 3
    /\ stack[i][Len(stack[i]) - 1].node.kind = "Compound"
    /\ stack[i][Len(stack[i]) - 2].node.kind = "Switch"

\* C9: the header of a case label is "if" for the first case of its enclosing
\* switch and "elif" for a later one, and compares the discriminant of that
\* switch, also after a switch nested in an earlier branch has been visited.
C9_SwitchScoped ==
    \A i \in Calls :
        AtCase(i) =>
            LET block == stack[i][Len(stack[i]) - 1]
                switch == stack[i][Len(stack[i]) - 2].node
                later == \E k \in 1..(block.idx - 2) : block.node.block_items[k].kind = "Case"
            IN  case_header(Obj(i), Top(i).node) =
                    <<IF later THEN "elif" ELSE "if", " ">> \o visit(switch.cond)
                        \o <<" == ">> \o visit(Top(i).node.expr) \o <<":">>

\* The statement the visit on top of the stack has just visited as (part of)
\* the body of an if, a while or a for, when that statement's visitor only
\* returns text: an unbraced body, or an item of a braced one.
BodyStatementDone(i) ==
    /\ pc[i] = "visit" /\ stack[i] # <<>>
    /\ LET f == Top(i)
           n == f.node
       IN  \/ n.kind = "If" /\ f.ph = 1 /\ n.iftrue.kind \notin Emitting
           \/ n.kind = "If" /\ f.ph = 2 /\ n.iffalse.kind \notin Emitting
           \/ n.kind \in {"While", "For"} /\ f.ph = 1 /\ n.stmt.kind \notin Emitting
           \/ /\ n.kind = "Compound" /\ f.idx > 1
              /\ n.block_items[f.idx - 1].kind \notin Emitting
              /\ Len(stack[i]) >= 2
              /\ stack[i][Len(stack[i]) - 1].node.kind \in {"If", "While", "For"}

\* C10: a statement of the body of an if, an else, a while or a for leaves a
\* line of its own, one level deeper than the header of the construct.
C10_NoStatementDropped ==
    \A i \in Calls :
        BodyStatementDone(i) =>
            /\ Obj(i).lines # <<>>
            /\ Depth(Obj(i).lines[Len(Obj(i).lines)]) = Obj(i).indent_level

\* A for-loop in the canonical shape: the initializer an assignment, the
\* condition a comparison.
CanonicalFor(for) ==
    /\ for.kind = "For"
    /\ for.init.kind = "Assignment" /\ for.init.lvalue.kind = "ID"
    /\ for.init.rvalue.kind = "Constant"
    /\ for.cond.kind = "BinaryOp" /\ for.cond.op \in {"<", "<=", ">", ">=", "!=", "=="}
    /\ for.cond.right.kind = "Constant"
\* for <var> in range(<start>, <end>):
RangeHeader(for) ==
    <<"for ", for.init.lvalue.name, " in range(", for.init.rvalue.value, ", ",
      for.cond.right.value, "):">>
\* The program is one function whose body is one canonical for-loop.
IsForProgram(u) ==
    /\ u.kind = "FileAST" /\ Len(u.ext) = 1 /\ u.ext[1].kind = "FuncDef"
    /\ Len(u.ext[1].body.block_items) = 1
    /\ CanonicalFor(u.ext[1].body.block_items[1])
TopFor(u) == u.ext[1].body.block_items[1]
\* Two such programs that differ in the increment clause of the loop alone.
DiffOnlyInNext(u1, u2) ==
    /\ IsForProgram(u1) /\ IsForProgram(u2)
    /\ u1.ext[1].decl = u2.ext[1].decl
    /\ [TopFor(u1) EXCEPT !.next = None] = [TopFor(u2) EXCEPT !.next = None]

Returned(i) == pc[i] = "done" /\ ~Rejected(i)

\* C5: the header of a canonical for-loop is "for <var> in range(<start>, <end>):"
\* with var and start from the initializer and end from the right-hand side of
\* the condition, and two programs that differ only in the increment clause of
\* the loop are given the same text.  (The header of a loop being visited, at
\* any depth, is among the lines, at the depth the loop stands at.)
C5_ForHeader ==
    /\ \A i \in Calls :
          Returned(i) /\ IsForProgram(ast[i]) =>
              LinesOf(result[i])[2] = <<"    ">> \o RangeHeader(TopFor(ast[i]))
    /\ \A i \in Calls : \A k \in 1..Len(stack[i]) :
          pc[i] = "visit" /\ CanonicalFor(stack[i][k].node) /\ stack[i][k].ph = 1 =>
              \E j \in 1..Len(Obj(i).lines) :
                  Obj(i).lines[j] =
                      Spaces(OpenBlocks(SubSeq(stack[i], 1, k)) - 1) \o RangeHeader(stack[i][k].node)
    /\ \A i, j \in Calls :
          Returned(i) /\ Returned(j) /\ DiffOnlyInNext(ast[i], ast[j]) => result[i] = result[j]

\* Two calls have returned, on for-loops that step by 1 and by 2.
C5_Witness ==
    /\ Returned(1) /\ Returned(2)
    /\ DiffOnlyInNext(ast[1], ast[2])
    /\ TopFor(ast[1]).next # TopFor(ast[2]).next

\* Two programs, each of the same two function definitions, in either order.
Swapped(u1, u2) ==
    /\ u1.kind = "FileAST" /\ u2.kind = "FileAST"
    /\ Len(u1.ext) = 2 /\ Len(u2.ext) = 2
    /\ u1.ext[1].kind = "FuncDef" /\ u1.ext[2].kind = "FuncDef"
    /\ u1.ext[1] = u2.ext[2] /\ u1.ext[2] = u2.ext[1]
    /\ u1.ext[1] # u1.ext[2]

\* C7: the texts of two programs that are the same two functions in either
\* order are the same two blocks of lines in either order.
C7_SwapBlocks ==
    \A i, j \in Calls :
        Returned(i) /\ Returned(j) /\ Swapped(ast[i], ast[j]) =>
            LET li == LinesOf(result[i])
                lj == LinesOf(result[j])
            IN  \E k \in 1..(Len(li) - 1) :
                    /\ li[k + 1][1] = "def "
                    /\ lj = SubSeq(li, k + 1, Len(li)) \o SubSeq(li, 1, k)

====
